---- MODULE Spec2Model ----
(***************************************************************************)
(* Model of src/modules/partition/core/PartitionActions.cpp (Calamares):   *)
(* swapSuggestion, doAutopartition and doReplacePartition.                 *)
(*                                                                         *)
(* Every byte quantity (names ending in B, as in the source) is counted in *)
(* blocks of 512 bytes, the smallest logical sector size; all the sizes    *)
(* the source names (1, 2, 300, 600 MiB, 4, 8 GiB, 2^31 and 2^32 bytes)    *)
(* are whole numbers of blocks, and the inputs are drawn from whole        *)
(* blocks.  A logical sector size is a whole number of blocks as well, so  *)
(* every sector count the code derives from a byte quantity is the same    *)
(* in blocks as in bytes (floor(floor(x)/n) = floor(x/n)).                 *)
(***************************************************************************)
EXTENDS Integers, Sequences, FiniteSets, TLC

VARIABLES
    op,       \* the operation that ran: "none" before any call
    status,   \* "idle", "returned", or "aborted" (Q_ASSERT failed, debug build)
    args,     \* the inputs of the call
    locals,   \* the locals of the call (and the return value of swapSuggestion)
    queue     \* the requests handed to PartitionCoreModule, in order

vars == <<op, status, args, locals, queue>>

----------------------------------------------------------------------------
(* Units (utils/Units.h literals _MiB and _GiB), in blocks of 512 bytes.   *)

MiB(n) == n * 2048

GiB(n) == MiB(n * 1024)

(* The sizes the source names. *)
EfiEmptySpaceMiB == 2

BiosEmptySpaceMiB == 1

DefaultUefiSysPartMiB == 300

FudgeMiB == 600

RampRamGiB == 4

TopSwapGiB == 8

SpaceShareDen == 10

(* Bounds of the inputs. *)
MaxRamGiB == 32

BigDeviceGiB == 200

----------------------------------------------------------------------------
(* C++ arithmetic.                                                         *)

\* qint64 / qint64 with a positive divisor: truncation toward zero.
CDiv(a, b) == IF a >= 0 THEN a \div b ELSE -((-a) \div b)

\* qint64( a * (n/d) ) for a >= 0, without leaving TLC's integer range.
MulDiv(a, n, d) == (a \div d) * n + ((a % d) * n) \div d

\* Assignment of a qint64 to an int: the value modulo 2^32, in
\* [-2^31, 2^31).  2^32 bytes are GiB(4) blocks, 2^31 bytes are GiB(2).
ToInt(b) == ((b + GiB(2)) % GiB(4)) - GiB(2)

\* CalamaresUtils::bytesToSectors: bytes / logical sector size, truncated.
bytesToSectors(bytes, blocksize) == CDiv(bytes, blocksize)

\* PartitionSize::toBytes( totalSize ): an absolute size, or a percentage
\* of the total.
toBytes(size, totalSize) ==
    IF size.unit = "percent" THEN MulDiv(totalSize, size.value, 100)
    ELSE size.value

----------------------------------------------------------------------------
(* swapSuggestion.  memory is the pair getTotalMemoryB() returns: the RAM  *)
(* size and the overestimation factor, the latter in hundredths.           *)

MayCreateSwap(swap) == swap = "SmallSwap" \/ swap = "FullSwap"

\* Ramp up quickly to 8GiB, then follow memory size
rampUp(availableRamB) ==
    IF availableRamB <= GiB(RampRamGiB) THEN availableRamB * 2
    ELSE IF availableRamB <= GiB(TopSwapGiB) THEN GiB(TopSwapGiB)
    ELSE availableRamB

Min(a, b) == IF a <= b THEN a ELSE b

\* .. top out at 8GiB if we don't care about suspend
topOut(suggestedSwapSizeB, ensureSuspendToDisk) ==
    IF ~ensureSuspendToDisk THEN Min(GiB(TopSwapGiB), suggestedSwapSizeB)
    ELSE suggestedSwapSizeB

overestimate_twice(suggestedSwapSizeB, overestimationFactor) ==
    MulDiv(MulDiv(suggestedSwapSizeB, overestimationFactor, 100),
           overestimationFactor, 100)

\* Allow for a fudge factor
overestimate(suggestedSwapSizeB, overestimationFactor) ==
    MulDiv(suggestedSwapSizeB, overestimationFactor, 100)

\* don't use more than 10% of available space
capToSpace(suggestedSwapSizeB, availableSpaceB, ensureSuspendToDisk) ==
    IF ~ensureSuspendToDisk
    THEN Min(suggestedSwapSizeB, CDiv(availableSpaceB, SpaceShareDen))
    ELSE suggestedSwapSizeB

swapSuggestion_capFull(availableSpaceB, swap, memory) ==
    IF ~MayCreateSwap(swap) THEN 0
    ELSE capToSpace(overestimate(topOut(rampUp(memory[1]), swap = "FullSwap"),
                                 memory[2]),
                    availableSpaceB, FALSE)

swapSuggestion(availableSpaceB, swap, memory) ==
    IF (swap # "SmallSwap") /\ (swap # "FullSwap") THEN 0
    ELSE LET availableRamB == memory[1]
             overestimationFactor == memory[2]
             ensureSuspendToDisk == (swap = "FullSwap")
             ramped == rampUp(availableRamB)
             topped == topOut(ramped, ensureSuspendToDisk)
             fudged == overestimate(topped, overestimationFactor)
         IN  capToSpace(fudged, availableSpaceB, ensureSuspendToDisk)

----------------------------------------------------------------------------
(* Inputs.                                                                 *)

SwapChoices == {"NoSwap", "SmallSwap", "FullSwap"}

RamSizes ==
    {GiB(1), GiB(RampRamGiB), GiB(RampRamGiB) + 1,
     GiB(TopSwapGiB), GiB(TopSwapGiB) + 1, GiB(16), GiB(MaxRamGiB)}

Factors == {100, 110}

Memories == RamSizes \X Factors

Spaces ==
    {-MiB(1), 0, MiB(100), GiB(20), GiB(80), GiB(80) + 10, GiB(BigDeviceGiB)}

\* Device: logicalSize() in blocks, totalLogical() in sectors.  The fourth
\* and fifth are a BIOS disk whose free space equals, and exceeds by one
\* sector, what FullSwap with 1 GiB of RAM and 1 GiB of required space
\* asks for.
Devices ==
    {[logicalSize |-> 1, totalLogical |-> 1000],
     [logicalSize |-> 1, totalLogical |-> GiB(20)],
     [logicalSize |-> 8, totalLogical |-> GiB(20) \div 8],
     [logicalSize |-> 1,
      totalLogical |-> MiB(BiosEmptySpaceMiB) + GiB(1) + MiB(FudgeMiB) + GiB(2)],
     [logicalSize |-> 1,
      totalLogical |-> MiB(BiosEmptySpaceMiB) + GiB(1) + MiB(FudgeMiB) + GiB(2) + 1],
     [logicalSize |-> 1, totalLogical |-> GiB(BigDeviceGiB)]}

\* Choices::AutoPartitionOptions
AutoPartitionOptions ==
    [defaultPartitionTableType : {"gpt", ""},
     defaultFsType : {"btrfs", ""},
     efiPartitionMountPoint : {"/boot/efi"},
     swap : SwapChoices,
     requiredSpaceB : {GiB(1), GiB(8)},
     luksPassphrase : {"", "secret"}]

\* The values efiSystemPartitionSize takes: a size in bytes or a percentage.
PartitionSizes ==
    {[unit |-> "bytes", value |-> MiB(512)],
     [unit |-> "bytes", value |-> GiB(2)],
     [unit |-> "bytes", value |-> GiB(4)],
     [unit |-> "percent", value |-> 100]}

\* GlobalStorage: the keys it contains and their values.  It holds no key,
\* a size for the ESP, or a size and the two partition names.
GlobalStorages ==
    {[keys |-> {}, efiSystemPartitionSize |-> [unit |-> "bytes", value |-> 0],
      efiSystemPartitionName |-> "", swapPartitionName |-> ""]}
    \cup {[keys |-> {"efiSystemPartitionSize"}, efiSystemPartitionSize |-> z,
            efiSystemPartitionName |-> "", swapPartitionName |-> ""] :
              z \in PartitionSizes}
    \cup {[keys |-> {"efiSystemPartitionSize", "efiSystemPartitionName",
                     "swapPartitionName"},
            efiSystemPartitionSize |-> z,
            efiSystemPartitionName |-> "EFI", swapPartitionName |-> "SWAP"] :
              z \in {[unit |-> "bytes", value |-> MiB(512)]}}

\* GlobalStorage::contains
contains(gs, key) == key \in gs.keys

----------------------------------------------------------------------------
(* doAutopartition.                                                        *)

\* Device::capacity()
capacity(dev) == dev.logicalSize * dev.totalLogical

emptySpaceSizeB(isEfi) ==
    IF isEfi THEN MiB(EfiEmptySpaceMiB) ELSE MiB(BiosEmptySpaceMiB)

\* PartitionTable::nameToTableType
nameToTableType(name) ==
    IF name \in {"gpt", "msdos"} THEN name ELSE "unknownTableType"

partType(o, isEfi) ==
    LET t == nameToTableType(o.defaultPartitionTableType)
    IN  IF t = "unknownTableType" THEN (IF isEfi THEN "gpt" ELSE "msdos") ELSE t

\* PartUtils::findFS
findFS(name) ==
    IF name = "btrfs" THEN "Btrfs" ELSE IF name = "ext4" THEN "Ext4" ELSE "Unknown"

layoutFs(o) ==
    LET type == findFS(o.defaultFsType)
    IN  IF type = "Unknown" THEN "Ext4" ELSE type

\* int uefisys_part_sizeB
uefisysPartSizeB(gs, dev) ==
    IF contains(gs, "efiSystemPartitionSize")
    THEN ToInt(toBytes(gs.efiSystemPartitionSize, capacity(dev)))
    ELSE MiB(DefaultUefiSysPartMiB)

\* KPMHelpers::createNewPartition / createNewEncryptedPartition
createNewPartition(role, fs, label, firstSector, lastSector, passphrase) ==
    [roles |-> {role}, fs |-> fs, label |-> label,
     firstSector |-> firstSector, lastSector |-> lastSector,
     luksPassphrase |-> passphrase]

\* The requests PartitionCoreModule receives.
InitLayout(fs) == [call |-> "initLayout", fs |-> fs]

CreatePartitionTable(type) == [call |-> "createPartitionTable", type |-> type]

CreatePartition(partition, flag, mountPoint) ==
    [call |-> "createPartition", partition |-> partition, flag |-> flag,
     format |-> TRUE, mountPoint |-> mountPoint]

LayoutApply(firstSector, lastSector, luksPassphrase) ==
    [call |-> "layoutApply", firstSector |-> firstSector,
     lastSector |-> lastSector, luksPassphrase |-> luksPassphrase]

DeletePartition(partition) == [call |-> "deletePartition", partition |-> partition]

DumpQueue == [call |-> "dumpQueue"]

requiredSpaceB_swapOnly(o, suggestedSwapSizeB) ==
    MiB(FudgeMiB) + suggestedSwapSizeB

requiredSpaceB(o, suggestedSwapSizeB) ==
    o.requiredSpaceB + MiB(FudgeMiB) + suggestedSwapSizeB

shouldCreateSwap_geq(availableSpaceB, required) == availableSpaceB >= required

\* If there is enough room for ESP + root + swap, create swap, otherwise don't.
shouldCreateSwap(availableSpaceB, required) == availableSpaceB > required

lastSectorForRoot_noGap(dev, createSwap, suggestedSwapSizeB) ==
    IF createSwap
    THEN (dev.totalLogical - 1) - CDiv(suggestedSwapSizeB, dev.logicalSize)
    ELSE dev.totalLogical - 1

lastSectorForRoot(dev, createSwap, suggestedSwapSizeB) ==
    IF createSwap
    THEN (dev.totalLogical - 1) - (CDiv(suggestedSwapSizeB, dev.logicalSize) + 1)
    ELSE dev.totalLogical - 1

\* The locals of a run, up to the Q_ASSERT on efiSectorCount.
efiLocals(dev, isEfi, gs) ==
    LET empty_space_sizeB == emptySpaceSizeB(isEfi)
        reserved == bytesToSectors(empty_space_sizeB, dev.logicalSize)
        uefisys_part_sizeB == uefisysPartSizeB(gs, dev)
        efiSectorCount == bytesToSectors(uefisys_part_sizeB, dev.logicalSize)
        lastSector == reserved + efiSectorCount - 1
    IN  [reserved |-> reserved,
         uefisys_part_sizeB |-> IF isEfi THEN uefisys_part_sizeB ELSE 0,
         efiSectorCount |-> IF isEfi THEN efiSectorCount ELSE 0,
         lastSector |-> IF isEfi THEN lastSector ELSE 0,
         firstFreeSector |-> IF isEfi THEN lastSector + 1 ELSE reserved]

\* The locals of the swap decision and the root range.
swapLocals(dev, o, firstFreeSector, memory) ==
    LET mayCreateSwap == MayCreateSwap(o.swap)
        availableSpaceB == (dev.totalLogical - firstFreeSector) * dev.logicalSize
        suggestedSwapSizeB ==
            IF mayCreateSwap THEN swapSuggestion(availableSpaceB, o.swap, memory)
            ELSE 0
        required == requiredSpaceB(o, suggestedSwapSizeB)
        createSwap == mayCreateSwap /\ shouldCreateSwap(availableSpaceB, required)
    IN  [availableSpaceB |-> IF mayCreateSwap THEN availableSpaceB ELSE 0,
         suggestedSwapSizeB |-> suggestedSwapSizeB,
         requiredSpaceB |-> IF mayCreateSwap THEN required ELSE 0,
         shouldCreateSwap |-> createSwap,
         lastSectorForRoot |-> lastSectorForRoot(dev, createSwap, suggestedSwapSizeB)]

\* Partition::setLabel, when GlobalStorage names the partition.
setLabel(partition, gs, key) ==
    IF contains(gs, key) THEN [partition EXCEPT !.label = gs[key]] ELSE partition

efiRequests(o, isEfi, gs, e) ==
    IF isEfi
    THEN << CreatePartition(
                setLabel(createNewPartition("Primary", "Fat32", "",
                                            e.reserved, e.lastSector, ""),
                         gs, "efiSystemPartitionName"),
                "ESP", o.efiPartitionMountPoint) >>
    ELSE << >>

swapRequests(dev, o, gs, s) ==
    IF s.shouldCreateSwap
    THEN << CreatePartition(
                setLabel(createNewPartition("Primary", "LinuxSwap", "swap",
                                            s.lastSectorForRoot + 1,
                                            dev.totalLogical - 1, o.luksPassphrase),
                         gs, "swapPartitionName"),
                "None", "") >>
    ELSE << >>

issue_swapFirst(setup, efi, layout, swap) ==
    setup \o efi \o swap \o layout \o << DumpQueue >>

\* The order in which doAutopartition calls PartitionCoreModule.
issue(setup, efi, layout, swap) ==
    setup \o efi \o layout \o swap \o << DumpQueue >>

setupRequests(o, isEfi) ==
    << InitLayout(layoutFs(o)), CreatePartitionTable(partType(o, isEfi)) >>

doAutopartition(dev, o, isEfi, gs, memory) ==
    LET e == efiLocals(dev, isEfi, gs)
        s == swapLocals(dev, o, e.firstFreeSector, memory)
    IN  [locals |-> [efi |-> e, swap |-> s],
         queue |-> issue(setupRequests(o, isEfi),
                         efiRequests(o, isEfi, gs, e),
                         << LayoutApply(e.firstFreeSector, s.lastSectorForRoot,
                                        o.luksPassphrase) >>,
                         swapRequests(dev, o, gs, s))]

----------------------------------------------------------------------------
(* doReplacePartition.                                                     *)

\* PartitionRole::Roles is a set of flags.
RoleFlags == {"Primary", "Extended", "Logical", "Unallocated", "Luks"}

\* partition->parent(): null, a PartitionNode that is no Partition (the
\* partition table), or a Partition with its roles.
Parents ==
    {[node |-> "null", roles |-> {}],
     [node |-> "PartitionTable", roles |-> {}],
     [node |-> "Partition", roles |-> {"Extended"}],
     [node |-> "Partition", roles |-> {"Primary"}]}

SectorRanges == {<<1000, 5000>>, <<2048, 4095>>, <<63, 63>>}

Partitions ==
    {[roles |-> r, parent |-> p, firstSector |-> x[1], lastSector |-> x[2]] :
        r \in SUBSET RoleFlags, p \in Parents, x \in SectorRanges}

\* Choices::ReplacePartitionOptions
ReplacePartitionOptions == [luksPassphrase : {"", "secret"}]

newRoles_extendedLast(partition) ==
    LET unallocated ==
            IF partition.parent.node = "Partition"
               /\ "Extended" \in partition.parent.roles
            THEN {"Logical"} ELSE {"Primary"}
        first == IF "Unallocated" \in partition.roles THEN unallocated
                 ELSE partition.roles
    IN  IF "Extended" \in partition.roles THEN {"Primary"} ELSE first

newRoles(partition) ==
    LET initial == partition.roles
        extended == IF "Extended" \in partition.roles THEN {"Primary"}
                    ELSE initial
    IN  IF "Unallocated" \in partition.roles
        THEN IF partition.parent.node # "null"
                /\ partition.parent.node = "Partition"
                /\ "Extended" \in partition.parent.roles
             THEN {"Logical"}
             ELSE {"Primary"}
        ELSE extended

deleteRequests_always(partition) == << DeletePartition(partition) >>

deleteRequests(partition) ==
    IF "Unallocated" \notin partition.roles
    THEN << DeletePartition(partition) >>
    ELSE << >>

doReplacePartition(partition, o) ==
    LET firstSector == partition.firstSector
        lastSector == partition.lastSector
    IN  [locals |-> [newRoles |-> newRoles(partition),
                     firstSector |-> firstSector, lastSector |-> lastSector],
         queue |-> deleteRequests(partition)
                   \o << LayoutApply(firstSector, lastSector, o.luksPassphrase) >>
                   \o << DumpQueue >>]

----------------------------------------------------------------------------
Init ==
    /\ op = "none"
    /\ status = "idle"
    /\ args = <<>>
    /\ locals = <<>>
    /\ queue = <<>>

SwapSuggestion ==
    /\ status = "idle"
    /\ \E availableSpaceB \in Spaces, swap \in SwapChoices, memory \in Memories :
        /\ op' = "swapSuggestion"
        /\ status' = "returned"
        /\ args' = [availableSpaceB |-> availableSpaceB, swap |-> swap,
                    memory |-> memory]
        /\ locals' = [ret |-> swapSuggestion(availableSpaceB, swap, memory)]
        /\ queue' = <<>>

\* A run of doAutopartition that returns: Q_ASSERT holds, or is compiled out.
DoAutopartition ==
    /\ status = "idle"
    /\ \E dev \in Devices, o \in AutoPartitionOptions, isEfi \in BOOLEAN,
          gs \in GlobalStorages, memory \in Memories :
        LET r == doAutopartition(dev, o, isEfi, gs, memory)
        IN  /\ op' = "doAutopartition"
            /\ status' = "returned"
            /\ args' = [dev |-> dev, o |-> o, isEfi |-> isEfi, gs |-> gs,
                        memory |-> memory]
            /\ locals' = r.locals
            /\ queue' = r.queue

\* A run of doAutopartition in a build with Q_ASSERT enabled, stopped by
\* Q_ASSERT( efiSectorCount > 0 ).
DoAutopartitionAbort ==
    /\ status = "idle"
    /\ \E dev \in Devices, o \in AutoPartitionOptions, isEfi \in BOOLEAN,
          gs \in GlobalStorages, memory \in Memories :
        LET e == efiLocals(dev, isEfi, gs)
        IN  /\ isEfi
            /\ ~(e.efiSectorCount > 0)
            /\ op' = "doAutopartition"
            /\ status' = "aborted"
            /\ args' = [dev |-> dev, o |-> o, isEfi |-> isEfi, gs |-> gs,
                        memory |-> memory]
            /\ locals' = [efi |-> e]
            /\ queue' = setupRequests(o, isEfi)

DoReplacePartition ==
    /\ status = "idle"
    /\ \E partition \in Partitions, o \in ReplacePartitionOptions :
        LET r == doReplacePartition(partition, o)
        IN  /\ op' = "doReplacePartition"
            /\ status' = "returned"
            /\ args' = [partition |-> partition, o |-> o]
            /\ locals' = r.locals
            /\ queue' = r.queue

Next ==
    \/ SwapSuggestion
    \/ DoAutopartition
    \/ DoAutopartitionAbort
    \/ DoReplacePartition

Spec == Init /\ [][Next]_vars
----------------------------------------------------------------------------
(* What a returned run of doAutopartition handed to the applier.           *)

AutoReturned == op = "doAutopartition" /\ status = "returned"

IsEsp(r) == r.call = "createPartition" /\ r.partition.fs = "Fat32"

IsSwap(r) == r.call = "createPartition" /\ r.partition.fs = "LinuxSwap"

IsLayout(r) == r.call = "layoutApply"

IsRange(r) == IsEsp(r) \/ IsSwap(r) \/ IsLayout(r)

Produced == SelectSeq(queue, IsRange)

Kind(r) == IF IsEsp(r) THEN "esp" ELSE IF IsSwap(r) THEN "swap" ELSE "layout"

Kinds == [i \in DOMAIN Produced |-> Kind(Produced[i])]

First(r) == IF IsLayout(r) THEN r.firstSector ELSE r.partition.firstSector

Last(r) == IF IsLayout(r) THEN r.lastSector ELSE r.partition.lastSector

The(P(_)) == CHOOSE r \in {queue[i] : i \in DOMAIN queue} : P(r)

Has(P(_)) == \E i \in DOMAIN queue : P(queue[i])

SwapCreated == Has(IsSwap)

\* (totalSectors - firstFreeSector) * sectorSize, firstFreeSector being the
\* first sector of the root range.
AvailableSpaceBytes ==
    (args.dev.totalLogical - First(The(IsLayout))) * args.dev.logicalSize

SuggestedSwapBytes == swapSuggestion(AvailableSpaceBytes, args.o.swap, args.memory)

RequiredSpaceBytes == args.o.requiredSpaceB + MiB(FudgeMiB) + SuggestedSwapBytes

----------------------------------------------------------------------------
\* C1: every range doAutopartition produces (ESP, root layout, swap) has
\* first <= last, lies within [0, totalLogicalSectors - 1], and the ranges
\* are pairwise disjoint and strictly increasing in their first sector in
\* the order ESP, root, swap.
C1_RangesInDeviceDisjointIncreasing ==
    AutoReturned =>
        LET R == Produced
        IN  /\ \A i \in DOMAIN R :
                /\ First(R[i]) <= Last(R[i])
                /\ 0 <= First(R[i])
                /\ Last(R[i]) <= args.dev.totalLogical - 1
            /\ \A i, j \in DOMAIN R :
                i < j => /\ First(R[i]) < First(R[j])
                         /\ (Last(R[i]) < First(R[j]) \/ Last(R[j]) < First(R[i]))

\* C2 as claimed: for every swap choice, a swap partition is created if and
\* only if availableSpaceBytes > requiredSpaceBytes.
C2_SwapIffSpaceExceedsRequired ==
    AutoReturned => (SwapCreated <=> AvailableSpaceBytes > RequiredSpaceBytes)

\* C2: a swap partition is created if and only if the swap choice is
\* SmallSwap or FullSwap and availableSpaceBytes > requiredSpaceBytes; with
\* the two exactly equal no swap partition is created.
C2_SwapIffEligibleAndSpaceExceedsRequired ==
    AutoReturned =>
        (SwapCreated <=> /\ args.o.swap \in {"SmallSwap", "FullSwap"}
                         /\ AvailableSpaceBytes > RequiredSpaceBytes)

C2_Witness_ExactlyEqualNoSwap ==
    /\ AutoReturned
    /\ args.o.swap = "FullSwap"
    /\ AvailableSpaceBytes = RequiredSpaceBytes
    /\ ~SwapCreated

\* C3 as claimed: with SmallSwap, RAM <= 4 GiB and a factor >= 1.0,
\* swapSuggestion returns at most 8 GiB.
C3_SmallSwapAtMost8GiB ==
    (/\ op = "swapSuggestion"
     /\ args.swap = "SmallSwap"
     /\ args.memory[1] <= GiB(4)
     /\ args.memory[2] >= 100) => locals.ret <= GiB(8)

\* C3: with SmallSwap, RAM <= 4 GiB and a factor >= 1.0, swapSuggestion
\* returns at most 8 GiB times the overestimation factor.
C3_SmallSwapAtMost8GiBTimesFactor ==
    (/\ op = "swapSuggestion"
     /\ args.swap = "SmallSwap"
     /\ args.memory[1] <= GiB(4)
     /\ args.memory[2] >= 100) => locals.ret * 100 <= GiB(8) * args.memory[2]

C3_Witness_Above8GiB ==
    /\ op = "swapSuggestion"
    /\ args.swap = "SmallSwap"
    /\ args.memory[1] <= GiB(4)
    /\ args.memory[2] > 100
    /\ locals.ret > GiB(8)

\* The reference function of C4.
RefBase(ramBytes, choice) ==
    LET tier == IF ramBytes <= GiB(4) THEN 2 * ramBytes
                ELSE IF ramBytes > GiB(8) THEN ramBytes
                ELSE GiB(8)
    IN  IF choice = "SmallSwap" /\ tier > GiB(8) THEN GiB(8) ELSE tier

RefTenth(bytes) == IF bytes < 0 THEN -((-bytes) \div 10) ELSE bytes \div 10

RefSuggest(availableSpaceBytes, choice, ramBytes, factor) ==
    IF choice \notin {"SmallSwap", "FullSwap"} THEN 0
    ELSE LET base == RefBase(ramBytes, choice)
             scaled == (base \div 100) * factor + ((base % 100) * factor) \div 100
         IN  IF choice = "SmallSwap" /\ RefTenth(availableSpaceBytes) < scaled
             THEN RefTenth(availableSpaceBytes)
             ELSE scaled

\* C4: swapSuggestion equals the reference function (0 for a choice other
\* than SmallSwap and FullSwap; the RAM tiers; the 8 GiB cap for SmallSwap;
\* the factor; the 10% cap for SmallSwap only), and for FullSwap the result
\* is the same for every available space.
C4_EqualsReference ==
    op = "swapSuggestion" =>
        /\ locals.ret = RefSuggest(args.availableSpaceB, args.swap,
                                   args.memory[1], args.memory[2])
        /\ args.swap = "FullSwap" =>
               \A a \in Spaces : swapSuggestion(a, args.swap, args.memory) = locals.ret

C4_Witness_FullSwapUncapped ==
    /\ op = "swapSuggestion"
    /\ args.swap = "FullSwap"
    /\ args.memory[1] > GiB(8)
    /\ locals.ret > RefTenth(args.availableSpaceB)
    /\ locals.ret > args.memory[1]

ParentIsExtended(partition) ==
    partition.parent.node = "Partition" /\ "Extended" \in partition.parent.roles

IsDelete(r) == r.call = "deletePartition"

Positions(P(_)) == {i \in DOMAIN queue : P(queue[i])}

\* C6: doReplacePartition emits a delete request if and only if the
\* descriptor is not Unallocated, before the root-layout request; it emits
\* exactly one root-layout request, which carries the descriptor's first
\* and last sector.
C6_DeleteThenLayout ==
    op = "doReplacePartition" =>
        /\ Cardinality(Positions(IsDelete)) =
               (IF "Unallocated" \in args.partition.roles THEN 0 ELSE 1)
        /\ Cardinality(Positions(IsLayout)) = 1
        /\ \A d \in Positions(IsDelete), l \in Positions(IsLayout) : d < l
        /\ \A l \in Positions(IsLayout) :
               /\ queue[l].firstSector = args.partition.firstSector
               /\ queue[l].lastSector = args.partition.lastSector

C6_Witness_FreeSpaceNoDelete ==
    /\ op = "doReplacePartition"
    /\ args.partition.roles = {"Unallocated"}
    /\ ParentIsExtended(args.partition)
    /\ Positions(IsDelete) = {}
    /\ \E l \in DOMAIN queue :
           IsLayout(queue[l]) /\ queue[l].firstSector = 1000
                              /\ queue[l].lastSector = 5000

C8_RootAndSwapRanges ==
    AutoReturned =>
        LET T == args.dev.totalLogical
            sectorSize == args.dev.logicalSize
            root == The(IsLayout)
            cursor == IF args.isEfi THEN Last(The(IsEsp)) + 1
                      ELSE MiB(1) \div sectorSize
        IN  /\ Has(IsLayout)
            /\ First(root) = cursor
            /\ IF SwapCreated
               THEN /\ Last(root) = (T - 1) - (SuggestedSwapBytes \div sectorSize + 1)
                    /\ First(The(IsSwap)) = Last(root) + 1
                    /\ Last(The(IsSwap)) = T - 1
               ELSE Last(root) = T - 1

C8_Witness_SwapAfterRoot ==
    /\ AutoReturned
    /\ args.isEfi
    /\ SwapCreated
    /\ args.dev.logicalSize = 8
    /\ SuggestedSwapBytes % args.dev.logicalSize # 0

\* C9: on EFI the ESP starts at sector floor(2 MiB / sectorSize) and spans
\* floor(espSizeBytes / sectorSize) > 0 sectors, espSizeBytes being 300 MiB
\* or the efiSystemPartitionSize override resolved against the capacity,
\* and the root range starts right after it; on BIOS there is no ESP and
\* the root range starts at sector floor(1 MiB / sectorSize).
C9_EspPlacementAndSize ==
    AutoReturned =>
        LET sectorSize == args.dev.logicalSize
            espSizeBytes ==
                IF "efiSystemPartitionSize" \notin args.gs.keys THEN MiB(300)
                ELSE IF args.gs.efiSystemPartitionSize.unit = "percent"
                     THEN LET cap == args.dev.totalLogical * sectorSize
                              pct == args.gs.efiSystemPartitionSize.value
                          IN  (cap \div 100) * pct + ((cap % 100) * pct) \div 100
                     ELSE args.gs.efiSystemPartitionSize.value
            esp == The(IsEsp)
            count == Last(esp) - First(esp) + 1
        IN  IF args.isEfi
            THEN /\ Has(IsEsp)
                 /\ First(esp) = MiB(2) \div sectorSize
                 /\ count = espSizeBytes \div sectorSize
                 /\ count > 0
                 /\ First(The(IsLayout)) = Last(esp) + 1
            ELSE /\ ~Has(IsEsp)
                 /\ First(The(IsLayout)) = MiB(1) \div sectorSize

\* C10: whenever doAutopartition creates a swap partition, the root range
\* holds at least requiredSpaceB bytes.
C10_RootKeepsRequiredSpace ==
    (AutoReturned /\ SwapCreated) =>
        (Last(The(IsLayout)) - First(The(IsLayout)) + 1) * args.dev.logicalSize
            >= args.o.requiredSpaceB

C10_Witness_RootJustAboveRequired ==
    /\ AutoReturned
    /\ SwapCreated
    /\ (Last(The(IsLayout)) - First(The(IsLayout)) + 1) * args.dev.logicalSize
           <= args.o.requiredSpaceB + MiB(FudgeMiB)
====
